---------------------------- MODULE Spec2Model ----------------------------
(***************************************************************************)
(* A model of the TIM2 texture decoders.                                   *)
(*                                                                         *)
(*   src/tim2_eva.py : TIM2Parser, the chained multi-picture decoder and   *)
(*                     its column compositor (compose_columns).            *)
(*   src/tim2.py     : process_tm2_file, the legacy single-picture decoder. *)
(*                                                                         *)
(* The machines below share the variables.  Each has its own initial       *)
(* predicate and next-state relation; the variables a machine does not use *)
(* stay at their idle values.                                              *)
(*   SpecCompose : compose_columns on a list of decoded images             *)
(*   SpecInfer   : _infer_column_height on longer lists of heights         *)
(*   SpecChained : TIM2Parser.__init__ followed by extract_all_images      *)
(*   SpecLegacy  : process_tm2_file                                        *)
(* A byte buffer is a sequence of 0..255; the byte at Python offset o is   *)
(* element o + 1 of the sequence.                                          *)
(***************************************************************************)
EXTENDS Integers, Sequences, FiniteSets

VARIABLES
    pc,               \* position of the running function
    data,             \* the file's bytes (self.data / data)
    source,           \* the pictures the container file was written from
    \* ---- TIM2Parser fields and extract_all_images locals
    picture_count, total_width, total_height,
    picture_headers,  \* sequence of [offset, header]
    offset,           \* _find_picture_headers: running offset
    imgs,             \* extract_all_images: the list being built
    \* ---- compose_columns arguments and locals
    images, col_target_h, positions, col_widths, x, col_y, col_w,
    canvas_w, canvas_h,
    pasted,           \* the canvas.paste calls made, in order
    i,                \* index of the loop in progress
    \* ---- process_tm2_file locals
    width, height, pixel_data_size, cont, original_palette, palette, img_data

parserVars  == <<picture_count, total_width, total_height>>
chainVars   == <<picture_headers, offset, imgs>>
composeVars == <<images, col_target_h, positions, col_widths, x, col_y, col_w,
                 canvas_w, canvas_h, pasted>>
legacyVars  == <<width, height, pixel_data_size, cont, original_palette,
                 palette, img_data>>
vars == <<pc, data, source, parserVars, chainVars, composeVars, i, legacyVars>>

-----------------------------------------------------------------------------
(* Small helpers.                                                          *)

Min(a, b) == IF a < b THEN a ELSE b
Max(a, b) == IF a > b THEN a ELSE b

RECURSIVE SumSeq(_)
SumSeq(s) == IF s = <<>> THEN 0 ELSE s[1] + SumSeq(Tail(s))

RECURSIVE MaxSeq(_)
MaxSeq(s) == IF Len(s) = 1 THEN s[1] ELSE Max(s[1], MaxSeq(Tail(s)))

InSeq(v, s) == \E k \in 1..Len(s) : s[k] = v

\* All sequences over S of length 0..n.
SeqsUpTo(S, n) == UNION { [1..k -> S] : k \in 0..n }

-----------------------------------------------------------------------------
(* Images as the compositor sees them: None, or an image with a size.      *)

NoneImage == [present |-> FALSE, width |-> 0, height |-> 0]
Img(w, h) == [present |-> TRUE, width |-> w, height |-> h]

\* heights = [im.height for im in images if im is not None]
present_heights(ims) ==
    LET pres == SelectSeq(ims, LAMBDA im : im.present)
    IN  [k \in 1..Len(pres) |-> pres[k].height]

present_widths(ims) ==
    LET pres == SelectSeq(ims, LAMBDA im : im.present)
    IN  [k \in 1..Len(pres) |-> pres[k].width]

-----------------------------------------------------------------------------
(* _infer_column_height                                                    *)

typical == <<448, 480, 512, 384, 320, 256>>

PrefixLimit == 6

\* for h in heights[:min(6, len(heights))]: s += h; prefix.append(s)
RECURSIVE prefix_from(_, _, _, _)
prefix_from(heights, limit, k, s) ==
    IF k > Min(limit, Len(heights)) THEN <<>>
    ELSE <<s + heights[k]>> \o prefix_from(heights, limit, k + 1, s + heights[k])

prefix_sums_7(heights) == prefix_from(heights, PrefixLimit + 1, 1, 0)

prefix_sums(heights) == prefix_from(heights, PrefixLimit, 1, 0)

\* for v in typical + prefix: if v > 0 and v not in seen: cand.append(v)
RECURSIVE dedup(_, _, _)
dedup(vs, k, cand) ==
    IF k > Len(vs) THEN cand
    ELSE IF vs[k] > 0 /\ ~InSeq(vs[k], cand)
         THEN dedup(vs, k + 1, Append(cand, vs[k]))
         ELSE dedup(vs, k + 1, cand)

candidates(heights) == dedup(typical \o prefix_sums(heights), 1, <<>>)

\* The mutant of can_partition: the final "return acc == 0" dropped.
RECURSIVE open_partition_from(_, _, _, _)
open_partition_from(H, heights, k, acc) ==
    IF k > Len(heights) THEN TRUE
    ELSE LET a == acc + heights[k]
         IN  IF a = H THEN open_partition_from(H, heights, k + 1, 0)
             ELSE IF a > H THEN FALSE
             ELSE open_partition_from(H, heights, k + 1, a)

can_partition_open(H, heights) == open_partition_from(H, heights, 1, 0)

\* def can_partition(H): the loop from its k-th height on, acc so far.
RECURSIVE partition_from(_, _, _, _)
partition_from(H, heights, k, acc) ==
    IF k > Len(heights) THEN acc = 0
    ELSE LET a == acc + heights[k]
         IN  IF a = H THEN partition_from(H, heights, k + 1, 0)
             ELSE IF a > H THEN FALSE
             ELSE partition_from(H, heights, k + 1, a)

can_partition(H, heights) == partition_from(H, heights, 1, 0)

\* for H in cand: if can_partition(H): return H;  return sum(heights)
RECURSIVE first_fit(_, _, _)
first_fit(cand, k, heights) ==
    IF k > Len(cand) THEN SumSeq(heights)
    ELSE IF can_partition(cand[k], heights) THEN cand[k]
    ELSE first_fit(cand, k + 1, heights)

infer_column_height(ims) ==
    LET heights == present_heights(ims)
    IN  IF heights = <<>> THEN 0
        ELSE first_fit(candidates(heights), 1, heights)

-----------------------------------------------------------------------------
(* compose_columns                                                         *)

\* The state of the placement pass before its loop.
place_start == [positions |-> <<>>, col_widths |-> <<>>, x |-> 0,
                col_y |-> 0, col_w |-> 0]

\* The mutant of place: the column takes the width of its last image, not
\* of its widest.
place_last_width(st, im, H) ==
    LET wrap == st.col_y > 0 /\ st.col_y + im.height > H
        s1   == IF wrap
                THEN [st EXCEPT !.col_widths = Append(st.col_widths, st.col_w),
                                !.x = st.x + st.col_w, !.col_y = 0, !.col_w = 0]
                ELSE st
        s2   == [s1 EXCEPT !.positions = Append(s1.positions, <<s1.x, s1.col_y>>),
                           !.col_y = s1.col_y + im.height,
                           !.col_w = im.width]
    IN  IF s2.col_y = H
        THEN [s2 EXCEPT !.col_widths = Append(s2.col_widths, s2.col_w),
                        !.x = s2.x + s2.col_w, !.col_y = 0, !.col_w = 0]
        ELSE s2

\* One iteration of the placement loop for a present image im, with column
\* height H, on the state st of the pass.
place(st, im, H) ==
    LET wrap == st.col_y > 0 /\ st.col_y + im.height > H
        s1   == IF wrap
                THEN [st EXCEPT !.col_widths = Append(st.col_widths, st.col_w),
                                !.x = st.x + st.col_w, !.col_y = 0, !.col_w = 0]
                ELSE st
        s2   == [s1 EXCEPT !.positions = Append(s1.positions, <<s1.x, s1.col_y>>),
                           !.col_y = s1.col_y + im.height,
                           !.col_w = Max(s1.col_w, im.width)]
    IN  IF s2.col_y = H
        THEN [s2 EXCEPT !.col_widths = Append(s2.col_widths, s2.col_w),
                        !.x = s2.x + s2.col_w, !.col_y = 0, !.col_w = 0]
        ELSE s2

\* zip(images, positions): pairs the two lists index by index and stops at
\* the shorter one.
zip_len(ims, pos) == Min(Len(ims), Len(pos))

\* The images compose_columns is given: sizes include 0, heights include
\* values whose sums meet the typical column heights.
ComposeWidths  == {0, 1, 2}
ComposeHeights == {0, 100, 128, 256}
ComposeImages  ==
    {NoneImage} \cup {Img(w, h) : w \in ComposeWidths, h \in ComposeHeights}
DeclaredSizes  == {<<0, 0>>, <<0, 228>>, <<3, 0>>, <<3, 228>>}
MaxImages == 3

IdleChain ==
    /\ data = <<>> /\ source = <<>> /\ picture_count = 0
    /\ picture_headers = <<>> /\ offset = 0 /\ imgs = <<>>

IdleCompose ==
    /\ images = <<>> /\ col_target_h = 0 /\ positions = <<>> /\ col_widths = <<>>
    /\ x = 0 /\ col_y = 0 /\ col_w = 0 /\ canvas_w = 0 /\ canvas_h = 0
    /\ pasted = <<>>

IdleLegacy ==
    /\ width = 0 /\ height = 0 /\ pixel_data_size = 0 /\ cont = 0
    /\ original_palette = <<>> /\ palette = <<>> /\ img_data = <<>>

InitCompose ==
    /\ pc = "compose"
    /\ images \in SeqsUpTo(ComposeImages, MaxImages)
    /\ \E d \in DeclaredSizes : total_width = d[1] /\ total_height = d[2]
    /\ col_target_h = 0 /\ positions = <<>> /\ col_widths = <<>>
    /\ x = 0 /\ col_y = 0 /\ col_w = 0 /\ canvas_w = 0 /\ canvas_h = 0
    /\ pasted = <<>> /\ i = 0
    /\ IdleChain /\ IdleLegacy

\* Lines 144-155: the column height, and the placement pass set up.
ResolveColumnHeight ==
    /\ pc = "compose"
    /\ col_target_h' = IF total_height > 0 THEN total_height
                       ELSE infer_column_height(images)
    /\ positions' = place_start.positions
    /\ col_widths' = place_start.col_widths
    /\ x' = place_start.x /\ col_y' = place_start.col_y
    /\ col_w' = place_start.col_w
    /\ i' = 1
    /\ pc' = "place"
    /\ UNCHANGED <<data, source, parserVars, chainVars, images, canvas_w,
                   canvas_h, pasted, legacyVars>>

\* Lines 157-159: "if im is None: continue".
SkipAbsent ==
    /\ pc = "place" /\ i <= Len(images)
    /\ ~images[i].present
    /\ i' = i + 1
    /\ UNCHANGED <<pc, data, source, parserVars, chainVars, composeVars,
                   legacyVars>>

\* Lines 160-176: one present image placed.
PlaceImage ==
    /\ pc = "place" /\ i <= Len(images)
    /\ images[i].present
    /\ LET st == [positions |-> positions, col_widths |-> col_widths, x |-> x,
                  col_y |-> col_y, col_w |-> col_w]
           r  == place(st, images[i], col_target_h)
       IN  /\ positions' = r.positions
           /\ col_widths' = r.col_widths
           /\ x' = r.x /\ col_y' = r.col_y /\ col_w' = r.col_w
    /\ i' = i + 1
    /\ UNCHANGED <<pc, data, source, parserVars, chainVars, images,
                   col_target_h, canvas_w, canvas_h, pasted, legacyVars>>

\* Line 179: is there a trailing open column to close?
trailing_open == col_y > 0 \/ (col_w > 0 /\ col_widths = <<>>)

closed_widths == IF trailing_open THEN Append(col_widths, col_w) ELSE col_widths

\* Line 185.
declared_canvas == total_width > 0 /\ total_height > 0

\* Lines 178-193: the trailing column closed, the canvas sized and created.
FinishPlacement ==
    /\ pc = "place" /\ i > Len(images)
    /\ LET computed_w == SumSeq(closed_widths)
       IN  /\ declared_canvas \/ computed_w > 0 \/ present_widths(images) # <<>>
           /\ canvas_w' = IF declared_canvas THEN total_width
                          ELSE IF computed_w > 0 THEN computed_w
                          ELSE MaxSeq(present_widths(images))
           /\ canvas_h' = IF declared_canvas THEN total_height ELSE col_target_h
    /\ col_widths' = closed_widths
    /\ x' = IF trailing_open THEN x + col_w ELSE x
    /\ i' = 1
    /\ pc' = "paste"
    /\ UNCHANGED <<data, source, parserVars, chainVars, images, col_target_h,
                   positions, col_y, col_w, pasted, legacyVars>>

\* Line 189 with no present image: max() of an empty sequence raises
\* ValueError, which process_tex_file catches.
FinishPlacementRaises ==
    /\ pc = "place" /\ i > Len(images)
    /\ ~declared_canvas
    /\ SumSeq(closed_widths) = 0
    /\ present_widths(images) = <<>>
    /\ col_widths' = closed_widths
    /\ x' = IF trailing_open THEN x + col_w ELSE x
    /\ pc' = "raised"
    /\ UNCHANGED <<data, source, parserVars, chainVars, images, col_target_h,
                   positions, col_y, col_w, canvas_w, canvas_h, pasted, i,
                   legacyVars>>

\* Lines 194-196: a pair of zip(images, positions) whose image is None.
PasteSkip ==
    /\ pc = "paste" /\ i <= zip_len(images, positions)
    /\ ~images[i].present
    /\ i' = i + 1
    /\ UNCHANGED <<pc, data, source, parserVars, chainVars, composeVars,
                   legacyVars>>

\* Line 197: canvas.paste(im, (px, py)) for the i-th pair of the zip.
PasteImage ==
    /\ pc = "paste" /\ i <= zip_len(images, positions)
    /\ images[i].present
    /\ pasted' = Append(pasted, [image |-> i, at |-> positions[i]])
    /\ i' = i + 1
    /\ UNCHANGED <<pc, data, source, parserVars, chainVars, images,
                   col_target_h, positions, col_widths, x, col_y, col_w,
                   canvas_w, canvas_h, legacyVars>>

\* Lines 199-205: the zip is exhausted; the canvas is returned.
ReturnCanvas ==
    /\ pc = "paste" /\ i > zip_len(images, positions)
    /\ pc' = "composed"
    /\ UNCHANGED <<data, source, parserVars, chainVars, composeVars, i,
                   legacyVars>>

NextCompose ==
    \/ ResolveColumnHeight
    \/ SkipAbsent
    \/ PlaceImage
    \/ FinishPlacement
    \/ FinishPlacementRaises
    \/ PasteSkip
    \/ PasteImage
    \/ ReturnCanvas

SpecCompose == InitCompose /\ [][NextCompose]_vars

\* ---- _infer_column_height alone, on lists long enough for the limit of
\* six prefix sums to matter.
InferImages == {NoneImage, Img(1, 128), Img(1, 896)}
MaxInferImages == 8

InitInfer ==
    /\ pc = "compose"
    /\ images \in SeqsUpTo(InferImages, MaxInferImages)
    /\ total_width = 0 /\ total_height = 0
    /\ col_target_h = 0 /\ positions = <<>> /\ col_widths = <<>>
    /\ x = 0 /\ col_y = 0 /\ col_w = 0 /\ canvas_w = 0 /\ canvas_h = 0
    /\ pasted = <<>> /\ i = 0
    /\ IdleChain /\ IdleLegacy

NextInfer == ResolveColumnHeight

SpecInfer == InitInfer /\ [][NextInfer]_vars

-----------------------------------------------------------------------------
(* Byte buffers.                                                           *)

Zeros(n) == [k \in 1..n |-> 0]

\* struct.pack('<H', v), struct.pack('<I', v)
pack_H(v) == <<v % 256, (v \div 256) % 256>>
pack_I(v) == <<v % 256, (v \div 256) % 256, (v \div 65536) % 256,
               (v \div 16777216) % 256>>

\* struct.unpack('<H', buf[off:off+2])[0], struct.unpack('<I', buf[off:off+4])[0]
unpack_H(buf, off) == buf[off + 1] + 256 * buf[off + 2]
unpack_I(buf, off) ==
    buf[off + 1] + 256 * buf[off + 2] + 65536 * buf[off + 3]
        + 16777216 * buf[off + 4]

\* a = np.minimum(a * 2 - 1, 255); a = np.clip(a, 0, 255)
alpha_clipped(a) == Max(0, Min(Min(a * 2 - 1, 255), 255))

-----------------------------------------------------------------------------
(* The chained container: TIM2Parser.                                      *)

FirstPictureOffset  == 128    \* 0x80
PictureHeaderBytes  == 40     \* 0x28
DefaultHeaderSize   == 128    \* 0x80
FileHeaderBytes     == 12     \* the fields _parse_header unpacks end at 0x0C
MagicTIM2 == <<84, 73, 77, 50>>   \* b'TIM2'

\* h['header_size'] = stored value or 0x80
effective_header_size(stored) == IF stored = 0 THEN DefaultHeaderSize ELSE stored

\* _parse_picture_header_at(offset)
parse_picture_header_at(buf, off) ==
    LET hs == effective_header_size(unpack_H(buf, off + 12))
        sz == unpack_I(buf, off + 8)
    IN  [ total_size     |-> unpack_I(buf, off),
          palette_size   |-> unpack_I(buf, off + 4),
          image_size_b   |-> sz,
          header_size    |-> hs,
          color_count    |-> unpack_H(buf, off + 14),
          format         |-> buf[off + 16 + 1],
          mipmap_count   |-> buf[off + 17 + 1],
          clut_format    |-> buf[off + 18 + 1],
          bpp            |-> buf[off + 19 + 1],
          width          |-> unpack_H(buf, off + 20),
          height         |-> unpack_H(buf, off + 22),
          image_offset   |-> off + hs,
          palette_offset |-> off + hs + sz ]

\* The mutant of next_offset: a fixed stride of header plus pixel bytes.
next_offset_stride(off, header) == off + header.header_size + header.image_size_b

\* offset += header['total_size']
next_offset(off, header) == off + header.total_size

NonePicture == [present |-> FALSE, width |-> 0, height |-> 0, pixels |-> <<>>]

\* The RGBA pixels of buf[data_off : data_off + w*h*4], row-major, alpha
\* adjusted (lines 77-87).
decode_rgba(buf, data_off, w, h) ==
    [k \in 1..(w * h) |->
        LET b == data_off + 4 * (k - 1)
        IN  <<buf[b + 1], buf[b + 2], buf[b + 3], alpha_clipped(buf[b + 4])>>]

SupportedFormats == {0, 3}

\* The mutant of extract_image: the overflow test written with >=.
extract_image_ge(buf, headers, index) ==
    IF index >= Len(headers) THEN NonePicture
    ELSE LET h == headers[index + 1].header
         IN  IF h.format \notin SupportedFormats THEN NonePicture
             ELSE IF h.image_offset + h.width * h.height * 4 >= Len(buf)
                  THEN NonePicture
             ELSE [present |-> TRUE, width |-> h.width, height |-> h.height,
                   pixels |-> decode_rgba(buf, h.image_offset, h.width, h.height)]

\* extract_image(index), index counted from 0
extract_image(buf, headers, index) ==
    IF index >= Len(headers) THEN NonePicture
    ELSE LET h == headers[index + 1].header
         IN  IF h.format \notin SupportedFormats THEN NonePicture
             ELSE IF h.image_offset + h.width * h.height * 4 > Len(buf)
                  THEN NonePicture
             ELSE [present |-> TRUE, width |-> h.width, height |-> h.height,
                   pixels |-> decode_rgba(buf, h.image_offset, h.width, h.height)]

\* ---- The container files the parser is run on.

\* The raw alpha bytes the written pictures cycle through.
SourceAlphas == <<0, 128, 1, 255, 200, 64>>

\* Pixel k (from 0) of the n-th picture written: R, G, B, raw alpha.
SourcePixel(n, k) ==
    <<(40 * n + k) % 256, (7 * k + 1) % 256, 255 - n,
      SourceAlphas[((n + k) % 6) + 1]>>

\* The kinds of picture block written: the stored header_size (0 stands for
\* 0x80), the format byte, the declared size, the number of pixels the block
\* really carries, and the padding after them.
PictureKinds ==
    { [header_size |-> 48,  format |-> 0, width |-> 1,  height |-> 1,
       carried |-> 1, pad |-> 0],
      [header_size |-> 0,   format |-> 3, width |-> 2,  height |-> 1,
       carried |-> 2, pad |-> 8],
      [header_size |-> 48,  format |-> 5, width |-> 1,  height |-> 1,
       carried |-> 1, pad |-> 0],
      [header_size |-> 48,  format |-> 0, width |-> 16, height |-> 16,
       carried |-> 1, pad |-> 8],
      [header_size |-> 48,  format |-> 0, width |-> 1,  height |-> 2,
       carried |-> 2, pad |-> 0] }

RECURSIVE FlattenPixels(_, _, _)
FlattenPixels(n, k, count) ==
    IF k >= count THEN <<>>
    ELSE SourcePixel(n, k) \o FlattenPixels(n, k + 1, count)

\* The n-th picture of a file, of kind kd, with its pixel bytes.
SourcePicture(kd, n) ==
    [header_size |-> kd.header_size, format |-> kd.format,
     width |-> kd.width, height |-> kd.height, pad |-> kd.pad,
     pixels |-> FlattenPixels(n, 0, kd.carried)]

BlockSize(p) == effective_header_size(p.header_size) + Len(p.pixels) + p.pad

\* A picture block in the layout _parse_picture_header_at reads.
PictureBlock(p) ==
    pack_I(BlockSize(p)) \o pack_I(0) \o pack_I(Len(p.pixels))
        \o pack_H(p.header_size) \o pack_H(0)
        \o <<p.format, 1, 0, 32>>
        \o pack_H(p.width) \o pack_H(p.height)
        \o Zeros(effective_header_size(p.header_size) - 24)
        \o p.pixels \o Zeros(p.pad)

RECURSIVE Blocks(_)
Blocks(ps) == IF ps = <<>> THEN <<>> ELSE PictureBlock(ps[1]) \o Blocks(Tail(ps))

\* A container file in the layout _parse_header reads.
ContainerFile(magic, count, tw, th, ps) ==
    magic \o pack_H(4) \o pack_H(count) \o pack_H(tw) \o pack_H(th)
        \o Zeros(FirstPictureOffset - 12) \o Blocks(ps)

\* Offset of the n-th block written (n from 1).
RECURSIVE BlockOffset(_, _)
BlockOffset(ps, n) ==
    IF n = 1 THEN FirstPictureOffset
    ELSE BlockOffset(ps, n - 1) + BlockSize(ps[n - 1])

MaxPictures == 3
\* Bytes missing from the end of the file, and picture slots declared
\* beyond the blocks written.
Truncations == {0, 1, 50}
ExtraSlots  == {0, 1}

IdleParser == picture_count = 0 /\ total_width = 0 /\ total_height = 0

WellFormedFiles ==
    /\ \E kinds \in SeqsUpTo(PictureKinds, MaxPictures) :
         source = [n \in 1..Len(kinds) |-> SourcePicture(kinds[n], n)]
    /\ \E cut \in Truncations, extra \in ExtraSlots :
         LET full == ContainerFile(MagicTIM2, Len(source) + extra, 3, 228, source)
         IN  data = SubSeq(full, 1, Len(full) - cut)

\* An empty file, a file of the magic alone, and a file with another magic.
BrokenFiles ==
    /\ source = <<>>
    /\ data \in { <<>>, MagicTIM2,
                  ContainerFile(<<84, 73, 77, 51>>, 0, 0, 0, <<>>) }

InitChained ==
    /\ pc = "parse_header"
    /\ WellFormedFiles \/ BrokenFiles
    /\ IdleParser
    /\ picture_headers = <<>> /\ offset = 0 /\ imgs = <<>> /\ i = 0
    /\ IdleCompose /\ IdleLegacy

magic_ok(buf) == Len(buf) >= 4 /\ SubSeq(buf, 1, 4) = MagicTIM2

\* _parse_header, lines 17-25, then the set-up of _find_picture_headers
\* (lines 28-29).
ParseHeader ==
    /\ pc = "parse_header"
    /\ magic_ok(data) /\ Len(data) >= FileHeaderBytes
    /\ picture_count' = unpack_H(data, 6)
    /\ total_width' = unpack_H(data, 8)
    /\ total_height' = unpack_H(data, 10)
    /\ picture_headers' = <<>>
    /\ offset' = FirstPictureOffset
    /\ i' = 0
    /\ pc' = "find_headers"
    /\ UNCHANGED <<data, source, imgs, composeVars, legacyVars>>

\* Line 20 raises ValueError on another magic; struct.unpack raises on a
\* buffer that ends inside the fields.
ParseHeaderRaises ==
    /\ pc = "parse_header"
    /\ ~(magic_ok(data) /\ Len(data) >= FileHeaderBytes)
    /\ pc' = "raised"
    /\ UNCHANGED <<data, source, parserVars, chainVars, composeVars, i,
                   legacyVars>>

\* Lines 30-35: one header parsed and recorded.
FindPictureHeader ==
    /\ pc = "find_headers" /\ i < picture_count
    /\ offset + PictureHeaderBytes <= Len(data)
    /\ LET header == parse_picture_header_at(data, offset)
       IN  /\ picture_headers' =
                 Append(picture_headers, [offset |-> offset, header |-> header])
           /\ offset' = next_offset(offset, header)
    /\ i' = i + 1
    /\ UNCHANGED <<pc, data, source, parserVars, imgs, composeVars, legacyVars>>

\* Lines 31-32: break, fewer bytes left than a header needs.
FindHeadersBreak ==
    /\ pc = "find_headers" /\ i < picture_count
    /\ offset + PictureHeaderBytes > Len(data)
    /\ i' = 0
    /\ pc' = "extract"
    /\ UNCHANGED <<data, source, parserVars, chainVars, composeVars, legacyVars>>

\* The loop of line 30 ran picture_count times.
FindHeadersEnd ==
    /\ pc = "find_headers" /\ i = picture_count
    /\ i' = 0
    /\ pc' = "extract"
    /\ UNCHANGED <<data, source, parserVars, chainVars, composeVars, legacyVars>>

\* extract_all_images, lines 91-93: one picture extracted and appended.
ExtractNext ==
    /\ pc = "extract" /\ i < Len(picture_headers)
    /\ imgs' = Append(imgs, extract_image(data, picture_headers, i))
    /\ i' = i + 1
    /\ UNCHANGED <<pc, data, source, parserVars, picture_headers, offset,
                   composeVars, legacyVars>>

\* extract_all_images, line 94.
ExtractReturn ==
    /\ pc = "extract" /\ i = Len(picture_headers)
    /\ pc' = "extracted"
    /\ UNCHANGED <<data, source, parserVars, chainVars, composeVars, i,
                   legacyVars>>

NextChained ==
    \/ ParseHeader
    \/ ParseHeaderRaises
    \/ FindPictureHeader
    \/ FindHeadersBreak
    \/ FindHeadersEnd
    \/ ExtractNext
    \/ ExtractReturn

SpecChained == InitChained /\ [][NextChained]_vars

-----------------------------------------------------------------------------
(* The legacy single-picture decoder: process_tm2_file.                    *)

LegacyHeaderBytes == 64      \* 0x40

\* a = min(a * 2 - 1, 255)   (lines 40 and 78: no lower bound)
alpha_legacy(a) == Min(a * 2 - 1, 255)

\* Lines 32-42: the palette entries read from palette_data.
decode_palette(palette_data, count) ==
    [n \in 1..count |->
        LET pos == (n - 1) * 4
        IN  <<palette_data[pos + 1], palette_data[pos + 2],
              palette_data[pos + 3], alpha_legacy(palette_data[pos + 4])>>]

\* The mutant of reorder_major_group: the two middle subgroups left in place.
reorder_major_group_unswapped(major_group) ==
    LET subgroup1 == SubSeq(major_group, 1, 8)
        subgroup2 == SubSeq(major_group, 9, 16)
        subgroup3 == SubSeq(major_group, 17, 24)
        subgroup4 == SubSeq(major_group, 25, 32)
    IN  subgroup1 \o subgroup2 \o subgroup3 \o subgroup4

\* Lines 49-53.
reorder_major_group(major_group) ==
    LET subgroup1 == SubSeq(major_group, 1, 8)
        subgroup2 == SubSeq(major_group, 9, 16)
        subgroup3 == SubSeq(major_group, 17, 24)
        subgroup4 == SubSeq(major_group, 25, 32)
    IN  subgroup1 \o subgroup3 \o subgroup2 \o subgroup4

\* Lines 46-54: for major_group_start in range(0, 256, 32)
RECURSIVE reorder_from(_, _)
reorder_from(original, major_group_start) ==
    IF major_group_start >= 256 THEN <<>>
    ELSE reorder_major_group(
             SubSeq(original, major_group_start + 1, major_group_start + 32))
         \o reorder_from(original, major_group_start + 32)

\* Lines 45-56.
resolve_palette(count, original) ==
    IF count = 256 THEN reorder_from(original, 0) ELSE original

\* pixels = data[0x40:0x40 + pixel_data_size]; palette_data = data[0x40 + pixel_data_size:]
\* (slices stop at the end of data)
legacy_pixels(buf, size) ==
    SubSeq(buf, LegacyHeaderBytes + 1, Min(LegacyHeaderBytes + size, Len(buf)))
legacy_palette_data(buf, size) ==
    SubSeq(buf, LegacyHeaderBytes + size + 1, Len(buf))

\* ---- The files the legacy decoder is run on.

\* Entry n (from 0) of the palette written, variant v: R, G, B, raw alpha.
LegacyPaletteEntry(n, v) ==
    <<n, 255 - n, (3 * n + v) % 256, (17 * n * (v + 1)) % 256>>

\* The bytes of the first count palette entries.
LegacyPaletteBytes(count, v) ==
    [k \in 1..(4 * count) |->
        LegacyPaletteEntry((k - 1) \div 4, v)[((k - 1) % 4) + 1]]

\* Byte k (from 0) of the pixel data written, variant v.
LegacyPixelByte(k, v) == (33 + 34 * k + 95 * v * (k + 1)) % 256

\* Pixel bytes a width x height picture needs at the given colour count.
NeededPixelBytes(count, w, h) ==
    IF count = 0 THEN 4 * w * h
    ELSE IF count = 16 THEN (w * h + 1) \div 2
    ELSE w * h

LegacyFile(w, h, size, count, pixel_bytes, palette_bytes) ==
    Zeros(24) \o pack_I(size) \o Zeros(2) \o pack_H(count) \o Zeros(4)
        \o pack_H(w) \o pack_H(h) \o Zeros(24)
        \o pixel_bytes \o palette_bytes

LegacyCounts   == {0, 4, 16, 256}
MaxWidth       == 3
MaxHeight      == 2
\* Declared pixel-data length relative to what the picture needs.
SizeDeltas     == {0 - 1, 0, 4}
\* Palette entries missing from the end of the file.
PaletteLosses  == {0, 1}
Variants       == {0, 1}

InitLegacy ==
    /\ pc = "read"
    /\ source = <<>>
    /\ \/ \E w \in 1..MaxWidth, h \in 1..MaxHeight, count \in LegacyCounts,
            d \in SizeDeltas, loss \in PaletteLosses, v \in Variants :
            LET size == NeededPixelBytes(count, w, h) + d
                kept == IF count > 0 THEN count - loss ELSE 0
            IN  data = LegacyFile(w, h, size, count,
                                  [k \in 1..size |-> LegacyPixelByte(k - 1, v)],
                                  LegacyPaletteBytes(kept, v))
       \/ data = Zeros(LegacyHeaderBytes - 1)
    /\ IdleParser
    /\ picture_headers = <<>> /\ offset = 0 /\ imgs = <<>> /\ i = 0
    /\ IdleCompose /\ IdleLegacy

\* Lines 11-13: the file is too small; the function returns.
RejectSmallFile ==
    /\ pc = "read"
    /\ Len(data) < LegacyHeaderBytes
    /\ pc' = "returned"
    /\ UNCHANGED <<data, source, parserVars, chainVars, composeVars, i,
                   legacyVars>>

\* Lines 19-29: the header fields.
ReadLegacyHeader ==
    /\ pc = "read"
    /\ Len(data) >= LegacyHeaderBytes
    /\ width' = unpack_H(data, 36)
    /\ height' = unpack_H(data, 38)
    /\ pixel_data_size' = unpack_I(data, 24)
    /\ cont' = unpack_H(data, 30)
    /\ pc' = "palette"
    /\ UNCHANGED <<data, source, parserVars, chainVars, composeVars, i,
                   original_palette, palette, img_data>>

\* Lines 32-42, the whole loop.
DecodePalette ==
    /\ pc = "palette"
    /\ Len(legacy_palette_data(data, pixel_data_size)) >= 4 * cont
    /\ original_palette' =
           decode_palette(legacy_palette_data(data, pixel_data_size), cont)
    /\ pc' = "reorder"
    /\ UNCHANGED <<data, source, parserVars, chainVars, composeVars, i,
                   width, height, pixel_data_size, cont, palette, img_data>>

\* Lines 36-39 index past the end of palette_data: IndexError, which main
\* catches.
DecodePaletteRaises ==
    /\ pc = "palette"
    /\ Len(legacy_palette_data(data, pixel_data_size)) < 4 * cont
    /\ pc' = "raised"
    /\ UNCHANGED <<data, source, parserVars, chainVars, composeVars, i,
                   legacyVars>>

\* Lines 45-60.
ReorderPalette ==
    /\ pc = "reorder"
    /\ palette' = resolve_palette(cont, original_palette)
    /\ img_data' = <<>>
    /\ i' = 0
    /\ pc' = "pixels"
    /\ UNCHANGED <<data, source, parserVars, chainVars, composeVars,
                   width, height, pixel_data_size, cont, original_palette>>

\* Lines 63-67: one index byte of a 256-colour picture.
DecodeIndex8 ==
    /\ pc = "pixels" /\ cont = 256
    /\ i < pixel_data_size /\ i # width * height
    /\ LET color_idx == legacy_pixels(data, pixel_data_size)[i + 1]
       IN  img_data' = Append(img_data, palette[color_idx + 1])
    /\ i' = i + 1
    /\ UNCHANGED <<pc, data, source, parserVars, chainVars, composeVars,
                   width, height, pixel_data_size, cont, original_palette,
                   palette>>

\* Lines 69-74: one byte, two pixels, of a 16-colour picture.
DecodeIndex4 ==
    /\ pc = "pixels" /\ cont = 16
    /\ i < pixel_data_size /\ i # (width * height) \div 2
    /\ LET byte_value == legacy_pixels(data, pixel_data_size)[i + 1]
       IN  img_data' = img_data \o << palette[(byte_value % 16) + 1],
                                      palette[((byte_value \div 16) % 16) + 1] >>
    /\ i' = i + 1
    /\ UNCHANGED <<pc, data, source, parserVars, chainVars, composeVars,
                   width, height, pixel_data_size, cont, original_palette,
                   palette>>

\* Lines 77-78: one pixel of a direct 32-bit picture.
DecodeDirect32 ==
    /\ pc = "pixels" /\ cont = 0
    /\ i < pixel_data_size
    /\ LET pixels == legacy_pixels(data, pixel_data_size)
       IN  /\ i + 3 < Len(pixels)
           /\ img_data' = Append(img_data,
                  <<pixels[i + 1], pixels[i + 2], pixels[i + 3],
                    alpha_legacy(pixels[i + 4])>>)
    /\ i' = i + 4
    /\ UNCHANGED <<pc, data, source, parserVars, chainVars, composeVars,
                   width, height, pixel_data_size, cont, original_palette,
                   palette>>

\* Line 78 indexes past the end of pixels: IndexError.
DecodeDirect32Raises ==
    /\ pc = "pixels" /\ cont = 0
    /\ i < pixel_data_size
    /\ i + 3 >= Len(legacy_pixels(data, pixel_data_size))
    /\ pc' = "raised"
    /\ UNCHANGED <<data, source, parserVars, chainVars, composeVars, i,
                   legacyVars>>

\* The pixel loop ends (range exhausted or break), or cont selects no
\* branch; img_data goes to img.putdata (line 81).
EndPixelLoop ==
    /\ pc = "pixels"
    /\ \/ cont = 256 /\ (i >= pixel_data_size \/ i = width * height)
       \/ cont = 16 /\ (i >= pixel_data_size \/ i = (width * height) \div 2)
       \/ cont = 0 /\ i >= pixel_data_size
       \/ cont \notin {0, 16, 256}
    /\ pc' = "decoded"
    /\ UNCHANGED <<data, source, parserVars, chainVars, composeVars, i,
                   legacyVars>>

NextLegacy ==
    \/ RejectSmallFile
    \/ ReadLegacyHeader
    \/ DecodePalette
    \/ DecodePaletteRaises
    \/ ReorderPalette
    \/ DecodeIndex8
    \/ DecodeIndex4
    \/ DecodeDirect32
    \/ DecodeDirect32Raises
    \/ EndPixelLoop

SpecLegacy == InitLegacy /\ [][NextLegacy]_vars

-----------------------------------------------------------------------------
(* Properties of the column compositor.                                    *)

\* The indices (into images) of the present images, in order.
present_indices(ims) ==
    SelectSeq([k \in 1..Len(ims) |-> k], LAMBDA k : ims[k].present)

\* C1 (as claimed): when compose_columns returns on a list with some absent
\* entries, the paste calls made are exactly: the k-th present image at the
\* k-th recorded position, for every present image.
C1_PastedAtRecordedPositions ==
    (pc = "composed" /\ \E k \in 1..Len(images) : ~images[k].present)
        => LET pres == present_indices(images)
           IN  pasted = [k \in 1..Len(pres) |->
                            [image |-> pres[k], at |-> positions[k]]]

ThreeOfHeight100 ==
    /\ pc \in {"paste", "composed"}
    /\ total_height = 0
    /\ present_heights(images) = <<100, 100, 100>>

\* C2 (as claimed): three present images of height 100 with no declared
\* height resolve to column height 200, image0 at (0,0), image1 below it at
\* (0,100), image2 at (x2,0), x2 the width of the first column.
C2_Original ==
    ThreeOfHeight100
        => LET w == present_widths(images)
           IN  /\ col_target_h = 200
               /\ positions = << <<0, 0>>, <<0, 100>>, <<Max(w[1], w[2]), 0>> >>

\* C2 (amended): three present images of height 100 with no declared height
\* resolve to column height 100 (the first prefix sum, which partitions the
\* heights), and each image gets a column of its own: image0 at (0,0),
\* image1 at (w0,0), image2 at (w0+w1,0).
C2_Amended ==
    ThreeOfHeight100
        => LET w == present_widths(images)
           IN  /\ col_target_h = 100
               /\ positions = << <<0, 0>>, <<w[1], 0>>, <<w[1] + w[2], 0>> >>

C2_Witness ==
    /\ pc = "composed"
    /\ total_height = 0
    /\ present_heights(images) = <<100, 100, 100>>
    /\ present_widths(images) = <<2, 1, 2>>
    /\ positions = << <<0, 0>>, <<2, 0>>, <<3, 0>> >>

\* The candidate column heights before deduplication, in the order tried.
C9_Raw(hs) ==
    typical \o [k \in 1..Min(6, Len(hs)) |-> SumSeq(SubSeq(hs, 1, k))]

\* A running accumulator over hs that resets to 0 exactly on reaching H
\* never exceeds H and ends at 0.
C9_Accepts(H, hs) ==
    LET acc[k \in 0..Len(hs)] ==
            IF k = 0 THEN 0
            ELSE IF acc[k - 1] + hs[k] = H THEN 0 ELSE acc[k - 1] + hs[k]
    IN  /\ \A k \in 1..Len(hs) : acc[k - 1] + hs[k] <= H
        /\ acc[Len(hs)] = 0

\* C9: with declared total height 0 and at least one present image, the
\* resolved column height is the first positive value, in the order 448,
\* 480, 512, 384, 320, 256, then the prefix sums of the first up to 6
\* present heights, that the accumulator test accepts; if none is accepted
\* it is the sum of all present heights.
C9_InferredColumnHeight ==
    (pc = "place" /\ total_height = 0 /\ present_heights(images) # <<>>)
        => LET hs   == present_heights(images)
               raw  == C9_Raw(hs)
               good == {k \in 1..Len(raw) : raw[k] > 0 /\ C9_Accepts(raw[k], hs)}
           IN  IF good = {} THEN col_target_h = SumSeq(hs)
               ELSE \E k \in good : /\ \A j \in good : k <= j
                                    /\ col_target_h = raw[k]

\* A prefix sum wins over several columns, absent entries in between.
C9_Witness ==
    /\ pc = "place" /\ total_height = 0
    /\ \E k \in 1..Len(images) : ~images[k].present
    /\ Len(present_heights(images)) >= 3
    /\ col_target_h = 896

\* C10: in every state of the placement pass, any two recorded rectangles
\* of images with positive width and height are disjoint: in the same
\* column (same x) their y-ranges are disjoint, in different columns their
\* x-ranges are.
C10_PlacedRectanglesDisjoint ==
    LET w == present_widths(images)
        h == present_heights(images)
    IN  \A a, b \in 1..Len(positions) :
            (a < b /\ w[a] > 0 /\ h[a] > 0 /\ w[b] > 0 /\ h[b] > 0)
                => IF positions[a][1] = positions[b][1]
                   THEN positions[a][2] + h[a] <= positions[b][2]
                   ELSE positions[a][1] + w[a] <= positions[b][1]

\* Two images stacked in one column, the wider one first, and a third
\* image in the next column.
C10_Witness ==
    /\ pc = "composed"
    /\ Len(positions) = 3
    /\ present_widths(images) = <<2, 1, 1>>
    /\ positions = << <<0, 0>>, <<0, 128>>, <<2, 0>> >>

-----------------------------------------------------------------------------
(* Properties of the chained parser.                                       *)

\* Picture n of the file as written decodes to this, from its own header
\* and pixel bytes and the length of the buffer alone.
C6_Overflows(n) ==
    BlockOffset(source, n) + effective_header_size(source[n].header_size)
        + source[n].width * source[n].height * 4 > Len(data)

C6_Expected(n) ==
    LET p == source[n]
    IN  IF C6_Overflows(n) \/ p.format \notin {0, 3}
        THEN NonePicture
        ELSE [present |-> TRUE, width |-> p.width, height |-> p.height,
              pixels |-> [k \in 1..(p.width * p.height) |->
                            << p.pixels[4 * k - 3], p.pixels[4 * k - 2],
                               p.pixels[4 * k - 1],
                               Max(0, Min(2 * p.pixels[4 * k] - 1, 255)) >>]]

\* C6: extract_all_images never raises and returns one entry per parsed
\* header; a picture whose image_offset + width*height*4 exceeds the buffer
\* length is absent, and every picture's entry is what its own header and
\* bytes give, whatever happened to the others.
C6_OverflowSkipsOnlyThatPicture ==
    /\ pc \in {"extract", "extracted"} => Len(imgs) <= Len(picture_headers)
    /\ pc = "extracted" => Len(imgs) = Len(picture_headers)
    /\ \A n \in 1..Len(imgs) :
         /\ n <= Len(source)
         /\ C6_Overflows(n) => ~imgs[n].present
         /\ imgs[n] = C6_Expected(n)

\* A picture that overflows between two that decode.
C6_Witness ==
    /\ pc = "extracted"
    /\ Len(imgs) = 3
    /\ C6_Overflows(2) /\ source[2].format = 0 /\ ~imgs[2].present
    /\ imgs[1].present /\ imgs[3].present
    /\ imgs[3].pixels[1][4] = 255

\* The offset the header after the recorded ones would be read at.
C8_NextChained ==
    IF picture_headers = <<>> THEN 128
    ELSE LET last == picture_headers[Len(picture_headers)]
         IN  last.offset + unpack_I(data, last.offset)

\* C8: when _find_picture_headers has returned, it recorded k <=
\* picture_count headers; the first is at 0x80; each later one is at the
\* previous offset plus the previous total_size field; every recorded header
\* lies within the buffer; and k < picture_count only if the next chained
\* offset + 0x28 exceeds the buffer length.
C8_HeadersChainedByTotalSize ==
    pc \in {"extract", "extracted"} =>
        LET k == Len(picture_headers)
        IN  /\ k <= picture_count
            /\ k >= 1 => picture_headers[1].offset = 128
            /\ \A n \in 1..(k - 1) :
                 /\ picture_headers[n + 1].offset =
                        picture_headers[n].offset
                            + unpack_I(data, picture_headers[n].offset)
                 /\ picture_headers[n + 1].offset = BlockOffset(source, n + 1)
            /\ \A n \in 1..k : picture_headers[n].offset + 40 <= Len(data)
            /\ k < picture_count => C8_NextChained + 40 > Len(data)

\* Three headers at unequal distances, and a fourth slot that the buffer
\* no longer holds.
C8_Witness ==
    /\ pc = "extracted"
    /\ Len(picture_headers) = 3 /\ picture_count = 4
    /\ picture_headers[2].offset - picture_headers[1].offset = 52
    /\ picture_headers[3].offset - picture_headers[2].offset = 144
    /\ picture_headers[2].header.total_size
           # picture_headers[2].header.header_size
               + picture_headers[2].header.image_size_b

-----------------------------------------------------------------------------
(* Properties of the legacy decoder.                                       *)

\* correct(a) of the specification: min(2a - 1, 255), not below 0.
CorrectAlpha(a) == Max(0, Min(2 * a - 1, 255))

\* C3 (as claimed): every alpha the decoders produce from a raw byte a is
\* max(0, min(2a - 1, 255)): in the legacy palette entries, in the legacy
\* direct 32-bit pixels and in the chained direct pixels; so it lies in
\* 0..255, with correct(0) = 0, correct(128) = 255, correct(255) = 255.
C3_AlphaCorrectedEverywhere ==
    /\ \A n \in 1..Len(original_palette) :
         original_palette[n][4] =
             CorrectAlpha(legacy_palette_data(data, pixel_data_size)[4 * n])
    /\ (cont = 0 /\ pc \in {"pixels", "decoded"}) =>
         \A k \in 1..Len(img_data) :
             img_data[k][4] =
                 CorrectAlpha(legacy_pixels(data, pixel_data_size)[4 * k])
    /\ \A a \in 0..255 : alpha_clipped(a) = CorrectAlpha(a)

\* The permutation p of C4 inside a block of 32.
C4_p(j) == IF j \in 8..15 THEN j + 8 ELSE IF j \in 16..23 THEN j - 8 ELSE j

\* C4: once the palette is resolved, for colour count 256 the palette used
\* for lookup is Q with Q[32g + j] = P[32g + p(j)] for g in 0..7, j in
\* 0..31 (sub1, sub3, sub2, sub4 in each block of 32); for colour count 16
\* it is P itself.
C4_PaletteReorder ==
    pc \in {"pixels", "decoded"} =>
        /\ cont = 256 =>
             /\ Len(palette) = 256
             /\ \A g \in 0..7, j \in 0..31 :
                  palette[32 * g + j + 1] = original_palette[32 * g + C4_p(j) + 1]
        /\ cont = 16 => palette = original_palette

\* A 256-colour picture decoded with a palette of distinct entries.
C4_Witness ==
    /\ pc = "decoded" /\ cont = 256
    /\ img_data # <<>>
    /\ palette[9] = original_palette[17]
    /\ palette[9] # original_palette[9]
    /\ palette[256] = original_palette[256]

\* C5 (as claimed, and here only for pixel blocks that hold every byte the
\* picture needs): a decoded 16-colour picture has exactly width*height
\* pixels; byte k of the pixel data gives pixel 2k from its low nibble and
\* pixel 2k+1 from its high nibble.
C5_FourBitPixels ==
    (pc = "decoded" /\ cont = 16 /\ 2 * pixel_data_size >= width * height) =>
        /\ Len(img_data) = width * height
        /\ \A k \in 0..((Len(img_data) \div 2) - 1) :
             LET b == legacy_pixels(data, pixel_data_size)[k + 1]
             IN  /\ img_data[2 * k + 1] = palette[(b % 16) + 1]
                 /\ img_data[2 * k + 2] = palette[((b \div 16) % 16) + 1]

\* C7 (as claimed): a decoded direct 32-bit picture has exactly
\* width*height pixels, pixel k being R, G, B and the corrected alpha of
\* bytes 4k..4k+3 of the pixel data.
C7_Direct32Pixels ==
    (pc = "decoded" /\ cont = 0) =>
        /\ Len(img_data) = width * height
        /\ \A k \in 0..(Len(img_data) - 1) :
             LET px == legacy_pixels(data, pixel_data_size)
             IN  img_data[k + 1] = <<px[4 * k + 1], px[4 * k + 2], px[4 * k + 3],
                                     CorrectAlpha(px[4 * k + 4])>>

=============================================================================
